---- MODULE Spec2Model ----
(***************************************************************************)
(* A model of dnpm_fixup.py, the DNPM submission date fix-up tool: the     *)
(* correction table loader, the file classifier, the two record patchers,  *)
(* the writer and the orchestrating main().                                *)
(*                                                                         *)
(* Strings that the code trims or compares (TANs, dates) are sequences of  *)
(* one-character strings.  A JSON text is a tagged syntax tree whose       *)
(* objects are sequences of <<key, value>> pairs (keys may repeat in a     *)
(* text); a loaded Python dict is such a sequence with unique keys, in     *)
(* insertion order.                                                        *)
(***************************************************************************)
EXTENDS Integers, Sequences, FiniteSets, TLC

\* Bounds of the model.
MaxFiles == 2
MaxRows == 3

VARIABLES
    pc,                      \* position of main(): validate, load, classify,
                             \* patients, reports, exit
    paths,                   \* what validate_paths() saw: config, in_dir, out_dir
    cfgFile,                 \* the config file: its csv rows, or a read failure
    tan_date_map,            \* main's tan_date_map
    listing,                 \* what os.listdir(in_dir) returned, in order
    patient_record_files,    \* main's list of Kind A file names
    submission_report_files, \* main's list of Kind B file names
    idx,                     \* position of the running for loop in its list
    fileText,                \* name -> text of each input file read so far
    results,                 \* name -> what the patcher returned (or raised)
    writeFate,               \* name -> how the write of the file went
    outDir,                  \* name -> text of each file in the output directory
    readLog,                 \* names in the order the patchers opened them
    modified_count,
    error_count,
    summary,                 \* the printed summary, <<>> before it
    uncaught,                \* the exception that left main(), or "none"
    exitCode                 \* the process exit status, -1 while running

vars == <<pc, paths, cfgFile, tan_date_map, listing, patient_record_files,
          submission_report_files, idx, fileText, results, writeFate, outDir,
          readLog, modified_count, error_count, summary, uncaught, exitCode>>

----------------------------------------------------------------------------
\* Character strings.

IsSpace(c) == c = " "

RECURSIVE LStrip(_)
LStrip(s) == IF s # <<>> /\ IsSpace(Head(s)) THEN LStrip(Tail(s)) ELSE s

RECURSIVE RStrip(_)
RStrip(s) ==
    IF s # <<>> /\ IsSpace(s[Len(s)]) THEN RStrip(SubSeq(s, 1, Len(s) - 1)) ELSE s

NoStrip(s) == s

\* str.strip()
Strip(s) == RStrip(LStrip(s))

----------------------------------------------------------------------------
\* JSON values and Python dicts.

Null == [t |-> "null"]
Bool(b) == [t |-> "bool", b |-> b]
Num(n) == [t |-> "num", n |-> n]
Str(s) == [t |-> "str", s |-> s]
Arr(a) == [t |-> "arr", a |-> a]
Obj(o) == [t |-> "obj", o |-> o]

Keys(d) == {d[i][1] : i \in DOMAIN d}

HasKey(d, k) == k \in Keys(d)

\* dict.get(k, default)
DictGet(d, k, default) ==
    IF HasKey(d, k) THEN d[CHOOSE i \in DOMAIN d : d[i][1] = k][2] ELSE default

\* d[k] = v: an existing key keeps its place, a new one is appended.
DictSet(d, k, v) ==
    IF HasKey(d, k)
    THEN [i \in DOMAIN d |-> IF d[i][1] = k THEN <<k, v>> ELSE d[i]]
    ELSE Append(d, <<k, v>>)

\* json.load of a JSON value: objects become dicts, a repeated key keeps its
\* last value.
RECURSIVE LoadValue(_), LoadPairs(_, _), LoadItems(_, _)
LoadValue(v) ==
    CASE v.t = "obj" -> Obj(LoadPairs(v.o, <<>>))
      [] v.t = "arr" -> Arr(LoadItems(v.a, <<>>))
      [] OTHER -> v
LoadPairs(ps, acc) ==
    IF ps = <<>> THEN acc
    ELSE LoadPairs(Tail(ps), DictSet(acc, Head(ps)[1], LoadValue(Head(ps)[2])))
LoadItems(items, acc) ==
    IF items = <<>> THEN acc
    ELSE LoadItems(Tail(items), Append(acc, LoadValue(Head(items))))

\* The text of a file: readable JSON, text that is not JSON, a file that
\* cannot be read, or (in the output) a file whose write broke off.
JsonText(v) == [t |-> "json", v |-> v]
BadText == [t |-> "bad"]
Unreadable == [t |-> "ioerr"]
PartialText == [t |-> "partial"]

\* json.dump(data, f, indent=2, ensure_ascii=False): the dict's pairs in order.
Dump(data) == JsonText(data)

\* bool(v) is False
Falsy(v) ==
    CASE v.t = "null" -> TRUE
      [] v.t = "bool" -> ~v.b
      [] v.t = "num" -> v.n = 0
      [] v.t = "str" -> v.s = <<>>
      [] v.t = "arr" -> v.a = <<>>
      [] v.t = "obj" -> v.o = <<>>

\* hash(v) does not raise TypeError
Hashable(v) == v.t \notin {"arr", "obj"}

\* v in tan_date_map, for a hashable v: the keys are all str.
InMap(v, map) == v.t = "str" /\ v.s \in DOMAIN map

----------------------------------------------------------------------------
\* validate_paths

ValidatePathsNoOutDir(config_ok, in_ok, out_ok) == config_ok /\ in_ok

ValidatePaths(config_ok, in_ok, out_ok) == config_ok /\ in_ok /\ out_ok

----------------------------------------------------------------------------
\* parse_config_file

EmptyMap == <<>>

\* tan_date_map[tan] = date
MapPut(map, k, v) == [x \in DOMAIN map \cup {k} |-> IF x = k THEN v ELSE map[x]]

\* The body of the loop over the csv rows.
AddRow(map, row) ==
    IF Len(row) >= 2
    THEN LET tan == Strip(row[1])
             date == Strip(row[2])
         IN  IF tan # <<>> /\ date # <<>> THEN MapPut(map, tan, date) ELSE map
    ELSE map

RECURSIVE ParseRows(_, _)
ParseRows(rows, map) ==
    IF rows = <<>> THEN map ELSE ParseRows(Tail(rows), AddRow(map, Head(rows)))

\* A failure while opening or reading discards what was loaded so far.
ParseConfigFile(cfg) == IF cfg.fails THEN EmptyMap ELSE ParseRows(cfg.rows, EmptyMap)

----------------------------------------------------------------------------
\* get_json_files

PatientPrefix == "MVH_MTBPatientRecord_Patient"
ReportPrefix == "SubmissionReport_Patient"

EndsWithJson(name) == name.ext = ".json"

NamesOf(entries) == [i \in 1..Len(entries) |-> entries[i].name]

IsPatientRecord(e) ==
    EndsWithJson(e.name) /\ e.isFile /\ e.name.prefix = PatientPrefix

\* The elif: reached only by a name without the patient record prefix.
IsSubmissionReport(e) ==
    /\ EndsWithJson(e.name) /\ e.isFile
    /\ e.name.prefix # PatientPrefix
    /\ e.name.prefix = ReportPrefix

GetJsonFiles(entries) ==
    [patients |-> NamesOf(SelectSeq(entries, IsPatientRecord)),
     reports |-> NamesOf(SelectSeq(entries, IsSubmissionReport))]

----------------------------------------------------------------------------
\* process_patient_record, process_submission_report

NoResult(msg) == [kind |-> "none", msg |-> msg]
Fix(tan, new_date, data) ==
    [kind |-> "fix", tan |-> tan, new_date |-> new_date, data |-> data]
Raised(exc) == [kind |-> "raise", exc |-> exc]

\* The lookup and the update both patchers end with: "tan not in
\* tan_date_map" hashes tan, outside any try.
Patch(data, tan, map, field) ==
    IF ~Hashable(tan) THEN Raised("TypeError")
    ELSE IF ~InMap(tan, map) THEN NoResult("")
    ELSE Fix(tan.s, map[tan.s], Obj(DictSet(data.o, field, Str(map[tan.s]))))

TransferTANFromId(data) ==
    IF data.t # "obj" THEN Null ELSE DictGet(data.o, "id", Null)

\* data.get('metadata', {}).get('transferTAN'), AttributeError and TypeError
\* caught.
TransferTAN(data) ==
    IF data.t # "obj" THEN Null
    ELSE LET metadata == DictGet(data.o, "metadata", Obj(<<>>))
         IN  IF metadata.t # "obj" THEN Null
             ELSE DictGet(metadata.o, "transferTAN", Null)

ProcessPatientRecordCreatedAt(text, map) ==
    IF text.t = "bad" THEN NoResult("Error: File is not valid JSON")
    ELSE IF text.t = "ioerr" THEN NoResult("Error reading file")
    ELSE LET data == LoadValue(text.v)
             tan == TransferTAN(data)
         IN  IF Falsy(tan) THEN NoResult("Warning: Could not extract transferTAN")
             ELSE Patch(data, tan, map, "createdAt")

ProcessPatientRecord(text, map) ==
    IF text.t = "bad" THEN NoResult("Error: File is not valid JSON")
    ELSE IF text.t = "ioerr" THEN NoResult("Error reading file")
    ELSE LET data == LoadValue(text.v)
             tan == TransferTAN(data)
         IN  IF Falsy(tan) THEN NoResult("Warning: Could not extract transferTAN")
             ELSE Patch(data, tan, map, "submittedAt")

ProcessSubmissionReportSubmittedAt(text, map) ==
    IF text.t = "bad" THEN NoResult("Error: File is not valid JSON")
    ELSE IF text.t = "ioerr" THEN NoResult("Error reading file")
    ELSE LET data == LoadValue(text.v)
         IN  IF data.t # "obj" THEN Raised("AttributeError")
             ELSE LET tan == DictGet(data.o, "id", Null)
                  IN  IF Falsy(tan) THEN NoResult("Warning: Could not extract id")
                      ELSE Patch(data, tan, map, "submittedAt")

ProcessSubmissionReport(text, map) ==
    IF text.t = "bad" THEN NoResult("Error: File is not valid JSON")
    ELSE IF text.t = "ioerr" THEN NoResult("Error reading file")
    ELSE LET data == LoadValue(text.v)
         IN  IF data.t # "obj" THEN Raised("AttributeError")
             ELSE LET tan == DictGet(data.o, "id", Null)
                  IN  IF Falsy(tan) THEN NoResult("Warning: Could not extract id")
                      ELSE Patch(data, tan, map, "createdAt")

----------------------------------------------------------------------------
\* write_output_file

\* How a write can go: it succeeds, open() fails, or the write breaks off
\* after open() created the file.
WriteFates == {"ok", "open_fails", "dump_fails"}

WriteOutputFile(dir, name, data, fate) ==
    CASE fate = "ok" -> [ok |-> TRUE, dir |-> (name :> Dump(data)) @@ dir]
      [] fate = "open_fails" -> [ok |-> FALSE, dir |-> dir]
      [] fate = "dump_fails" -> [ok |-> FALSE, dir |-> (name :> PartialText) @@ dir]

----------------------------------------------------------------------------
\* The inputs the environment can supply.

\* TANs and dates, as the files spell them.
TanA == <<"a">>
TanB == <<"b">>
TanC == <<"c">>
TanAPadded == <<" ", "a", " ">>
Date0 == <<"0">>
Date1 == <<"1">>
Date2 == <<"2">>
Date2Padded == <<"2", " ">>
Blank == <<" ">>

\* Rows as csv.reader yields them: lists of fields.
CsvRows ==
    { <<>>,                           \* a blank line
      <<TanA>>,                       \* one field only
      <<TanA, Date1>>,
      <<TanAPadded, Date2Padded>>,    \* the same TAN once trimmed
      <<TanA, <<>>>>,                 \* no date
      <<Blank, Date1>>,               \* no TAN once trimmed
      <<TanB, Date2, TanC>>,          \* a third field
      <<TanB, Date1>> }

ConfigFile(rows, fails) == [rows |-> rows, fails |-> fails]

SeqsUpTo(S, n) == UNION {[1..k -> S] : k \in 0..n}

\* Every config file of at most MaxRows rows, readable or not.
AllConfigFiles == {ConfigFile(rows, fails) : rows \in SeqsUpTo(CsvRows, MaxRows), fails \in BOOLEAN}

\* The config files of the batch runs: no row, no valid row, a table of two
\* TANs, and an unreadable file.
BatchConfigFiles ==
    { ConfigFile(<<>>, FALSE),
      ConfigFile(<< <<TanA>> >>, FALSE),
      ConfigFile(<< <<TanA, Date1>>, <<>>, <<TanB, Date2>> >>, FALSE),
      ConfigFile(<< <<TanA, Date1>> >>, TRUE) }

\* Directory entries: a name (prefix, rest, extension) and whether it is a
\* regular file.  The rest of a name is its position in the listing, which
\* keeps the names of one directory distinct.
EntryShapes ==
    { [prefix |-> PatientPrefix, ext |-> ".json", isFile |-> TRUE],
      [prefix |-> ReportPrefix, ext |-> ".json", isFile |-> TRUE],
      [prefix |-> "Other", ext |-> ".json", isFile |-> TRUE],
      [prefix |-> PatientPrefix, ext |-> ".txt", isFile |-> TRUE],
      [prefix |-> ReportPrefix, ext |-> ".json", isFile |-> FALSE] }

ListingOf(shapes) ==
    [i \in 1..Len(shapes) |->
        [name |-> [prefix |-> shapes[i].prefix, n |-> i, ext |-> shapes[i].ext],
         isFile |-> shapes[i].isFile]]

Listings == {ListingOf(shapes) : shapes \in SeqsUpTo(EntryShapes, MaxFiles)}

Patient == <<"patient", Obj(<< <<"id", Str(TanC)>> >>)>>
Metadata(tan) == <<"metadata", Obj(<< <<"type", Str(TanC)>>, <<"transferTAN", tan>> >>)>>

\* What a patient record file can hold.
PatientTexts ==
    { BadText,
      Unreadable,
      JsonText(Arr(<<>>)),
      JsonText(Obj(<<>>)),
      JsonText(Obj(<< <<"metadata", Str(TanA)>>, Patient >>)),
      JsonText(Obj(<< <<"metadata", Null>> >>)),
      JsonText(Obj(<< <<"metadata", Obj(<<>>)>>, <<"submittedAt", Str(Date0)>> >>)),
      JsonText(Obj(<< Metadata(Str(<<>>)) >>)),
      JsonText(Obj(<< Metadata(Null) >>)),
      JsonText(Obj(<< Metadata(Num(5)) >>)),
      JsonText(Obj(<< Metadata(Arr(<< Str(TanA) >>)) >>)),
      JsonText(Obj(<< Patient, <<"submittedAt", Str(Date0)>>, Metadata(Str(TanA)) >>)),
      JsonText(Obj(<< Metadata(Str(TanA)), Patient >>)),
      JsonText(Obj(<< Metadata(Str(TanAPadded)), Patient >>)),
      JsonText(Obj(<< Metadata(Str(TanC)), <<"submittedAt", Str(Date0)>> >>)),
      JsonText(Obj(<< <<"submittedAt", Str(Date0)>>, Metadata(Str(TanA)),
                      <<"createdAt", Str(Date0)>>, Metadata(Str(TanB)) >>)) }

\* What a submission report file can hold.
ReportTexts ==
    { BadText,
      Unreadable,
      JsonText(Arr(<<>>)),
      JsonText(Str(TanA)),
      JsonText(Obj(<< <<"createdAt", Str(Date0)>> >>)),
      JsonText(Obj(<< <<"id", Null>>, <<"createdAt", Str(Date0)>> >>)),
      JsonText(Obj(<< <<"id", Str(<<>>)>> >>)),
      JsonText(Obj(<< <<"id", Num(5)>> >>)),
      JsonText(Obj(<< <<"id", Arr(<< Str(TanA) >>)>> >>)),
      JsonText(Obj(<< <<"id", Str(TanA)>>, <<"createdAt", Str(Date0)>>, Patient >>)),
      JsonText(Obj(<< <<"id", Str(TanB)>>, <<"status", Str(TanC)>> >>)),
      JsonText(Obj(<< <<"id", Str(TanC)>>, <<"createdAt", Str(Date0)>> >>)),
      JsonText(Obj(<< <<"id", Str(TanB)>>, <<"submittedAt", Str(Date0)>>,
                      <<"id", Str(TanA)>> >>)) }

----------------------------------------------------------------------------
\* main

NoPaths == [config |-> FALSE, in_dir |-> FALSE, out_dir |-> FALSE]

InitRest ==
    /\ pc = "validate"
    /\ paths = NoPaths
    /\ tan_date_map = EmptyMap
    /\ listing = <<>>
    /\ patient_record_files = <<>>
    /\ submission_report_files = <<>>
    /\ idx = 1
    /\ fileText = <<>>
    /\ results = <<>>
    /\ writeFate = <<>>
    /\ outDir = <<>>
    /\ readLog = <<>>
    /\ modified_count = 0
    /\ error_count = 0
    /\ summary = <<>>
    /\ uncaught = "none"
    /\ exitCode = -1

Init == cfgFile \in BatchConfigFiles /\ InitRest

InitLoader == cfgFile \in AllConfigFiles /\ InitRest

\* sys.exit(code), or an exception that leaves main(): status 1.
Exit(code, exc) == pc' = "exit" /\ exitCode' = code /\ uncaught' = exc

\* Lines 281-283.
CheckPaths ==
    /\ pc = "validate"
    /\ \E config_ok \in BOOLEAN, in_ok \in BOOLEAN, out_ok \in BOOLEAN :
          /\ paths' = [config |-> config_ok, in_dir |-> in_ok, out_dir |-> out_ok]
          /\ IF ValidatePaths(config_ok, in_ok, out_ok)
             THEN pc' = "load" /\ UNCHANGED <<exitCode, uncaught>>
             ELSE Exit(1, "none")
    /\ UNCHANGED <<cfgFile, tan_date_map, listing, patient_record_files,
                   submission_report_files, idx, fileText, results, writeFate,
                   outDir, readLog, modified_count, error_count, summary>>

\* Lines 285-291.
LoadConfig ==
    /\ pc = "load"
    /\ tan_date_map' = ParseConfigFile(cfgFile)
    /\ IF DOMAIN tan_date_map' = {}
       THEN Exit(1, "none")
       ELSE pc' = "classify" /\ UNCHANGED <<exitCode, uncaught>>
    /\ UNCHANGED <<paths, cfgFile, listing, patient_record_files,
                   submission_report_files, idx, fileText, results, writeFate,
                   outDir, readLog, modified_count, error_count, summary>>

\* Lines 293-300.
Classify ==
    /\ pc = "classify"
    /\ \E entries \in Listings :
          /\ listing' = entries
          /\ patient_record_files' = GetJsonFiles(entries).patients
          /\ submission_report_files' = GetJsonFiles(entries).reports
    /\ pc' = "patients"
    /\ idx' = 1
    /\ modified_count' = 0
    /\ error_count' = 0
    /\ UNCHANGED <<paths, cfgFile, tan_date_map, fileText, results, writeFate,
                   outDir, readLog, summary, uncaught, exitCode>>

TallyAsModified(ok) == [modified |-> 1, errors |-> 0]

\* The counters after a write: lines 309-313 and 322-326.
Tally(ok) == IF ok THEN [modified |-> 1, errors |-> 0] ELSE [modified |-> 0, errors |-> 1]

\* What one pass of either for loop does with the patcher's result: lines
\* 307-313 and 320-326.
HandleResult(filename, text, result) ==
    /\ fileText' = (filename :> text) @@ fileText
    /\ readLog' = Append(readLog, filename)
    /\ results' = (filename :> result) @@ results
    /\ idx' = idx + 1
    /\ CASE result.kind = "raise" ->
              /\ Exit(1, result.exc)
              /\ UNCHANGED <<writeFate, outDir, modified_count, error_count>>
         [] result.kind = "none" ->
              UNCHANGED <<pc, exitCode, uncaught, writeFate, outDir,
                          modified_count, error_count>>
         [] result.kind = "fix" ->
              \E fate \in WriteFates :
                 LET written == WriteOutputFile(outDir, filename, result.data, fate)
                 IN  /\ writeFate' = (filename :> fate) @@ writeFate
                     /\ outDir' = written.dir
                     /\ modified_count' = modified_count + Tally(written.ok).modified
                     /\ error_count' = error_count + Tally(written.ok).errors
                     /\ UNCHANGED <<pc, exitCode, uncaught>>
    /\ UNCHANGED <<paths, cfgFile, tan_date_map, listing, patient_record_files,
                   submission_report_files, summary>>

\* One pass of the loop of lines 303-313.
PatientStep ==
    /\ pc = "patients"
    /\ idx <= Len(patient_record_files)
    /\ \E text \in PatientTexts :
          HandleResult(patient_record_files[idx], text,
                       ProcessPatientRecord(text, tan_date_map))

\* The loop of lines 303-313 ends.
PatientsDone ==
    /\ pc = "patients"
    /\ idx > Len(patient_record_files)
    /\ pc' = "reports"
    /\ idx' = 1
    /\ UNCHANGED <<paths, cfgFile, tan_date_map, listing, patient_record_files,
                   submission_report_files, fileText, results, writeFate, outDir,
                   readLog, modified_count, error_count, summary, uncaught,
                   exitCode>>

\* One pass of the loop of lines 316-326.
ReportStep ==
    /\ pc = "reports"
    /\ idx <= Len(submission_report_files)
    /\ \E text \in ReportTexts :
          HandleResult(submission_report_files[idx], text,
                       ProcessSubmissionReport(text, tan_date_map))

\* Lines 328-332, and main() returns: exit status 0.
Summary ==
    /\ pc = "reports"
    /\ idx > Len(submission_report_files)
    /\ summary' = << [modified |-> modified_count,
                      errors_shown |-> error_count > 0,
                      errors |-> error_count] >>
    /\ Exit(0, "none")
    /\ UNCHANGED <<paths, cfgFile, tan_date_map, listing, patient_record_files,
                   submission_report_files, idx, fileText, results, writeFate,
                   outDir, readLog, modified_count, error_count>>

Next ==
    \/ CheckPaths
    \/ LoadConfig
    \/ Classify
    \/ PatientStep
    \/ PatientsDone
    \/ ReportStep
    \/ Summary

Spec == Init /\ [][Next]_vars

\* The loader alone, over every config file of the bounds.
NextLoader == CheckPaths \/ LoadConfig

SpecLoader == InitLoader /\ [][NextLoader]_vars

----------------------------------------------------------------------------
\* What the properties speak of.

Range(seq) == {seq[i] : i \in DOMAIN seq}

Max(S) == CHOOSE x \in S : \A y \in S : y <= x
Min(S) == CHOOSE x \in S : \A y \in S : x <= y

\* A string without its leading and trailing blanks.
Trimmed(s) ==
    LET solid == {i \in DOMAIN s : s[i] # " "}
    IN  IF solid = {} THEN <<>> ELSE SubSeq(s, Min(solid), Max(solid))

\* A row the table is built from: two fields or more, neither of the first
\* two blank.
ValidRow(row) ==
    Len(row) >= 2 /\ Trimmed(row[1]) # <<>> /\ Trimmed(row[2]) # <<>>

PathsExist == paths.config /\ paths.in_dir /\ paths.out_dir

\* parse_config_file has returned.
Loaded == PathsExist /\ pc \notin {"validate", "load"}

\* The run got past both fatal checks.
PassedPreconditions == Loaded /\ DOMAIN tan_date_map # {}

\* The files get_json_files classified.
Classified == Range(patient_record_files) \cup Range(submission_report_files)

Processed(f) == f \in DOMAIN fileText

\* The document a text holds, for a text that is JSON.
Document(text) == LoadValue(text.v)

\* The value of a top-level field of a document, Null without it.
FieldOf(doc, k) == IF doc.t = "obj" THEN DictGet(doc.o, k, Null) ELSE Null

\* The identifier of a processed file: metadata.transferTAN of a patient
\* record, id of a submission report; Null when there is none.
Identifier(f) ==
    IF fileText[f].t # "json" THEN Null
    ELSE IF f.prefix = PatientPrefix
         THEN FieldOf(FieldOf(Document(fileText[f]), "metadata"), "transferTAN")
         ELSE FieldOf(Document(fileText[f]), "id")

IsKey(id) == id.t = "str" /\ id.s \in DOMAIN tan_date_map

\* A complete file of that name is in the output directory.
Written(f) == f \in DOMAIN outDir /\ outDir[f].t = "json"

WriteTried(f) == f \in DOMAIN writeFate

WriteFailed(f) == WriteTried(f) /\ writeFate[f] # "ok"

Completed == pc = "exit" /\ summary # <<>>

\* doc and patched agree on every top-level field but the given one.
SameButField(doc, patched, field) ==
    /\ doc.t = "obj" /\ patched.t = "obj"
    /\ Keys(patched.o) \ {field} = Keys(doc.o) \ {field}
    /\ \A k \in Keys(doc.o) \ {field} : FieldOf(patched, k) = FieldOf(doc, k)

----------------------------------------------------------------------------
\* C1 as stated: when a run that passed the fatal preconditions has ended
\* with its summary, each classified file is in the output directory if and
\* only if its identifier is a key of the correction table.
C1_WrittenIffKey ==
    Completed =>
        \A f \in Classified : f \in DOMAIN outDir <=> IsKey(Identifier(f))

\* C1 as amended: at the end of a run that passed the fatal preconditions,
\* and at every point before it, the writer was called for a classified file
\* if and only if the file was processed and its identifier is a key of the
\* correction table; a complete file of that name is in the output directory
\* if and only if that write did not fail; no other file is in the output
\* directory.
C1_WrittenIffKeyAndWriteOk ==
    PassedPreconditions =>
        /\ \A f \in Classified :
              /\ WriteTried(f) <=> (Processed(f) /\ IsKey(Identifier(f)))
              /\ Written(f) <=> (WriteTried(f) /\ writeFate[f] = "ok")
        /\ \A f \in DOMAIN outDir : f \in Classified /\ WriteTried(f)

\* A run ended with one matching file written and one matching file whose
\* write failed at open().
C1_Witness ==
    /\ Completed
    /\ \E f, g \in Classified :
          /\ IsKey(Identifier(f)) /\ Written(f)
          /\ IsKey(Identifier(g)) /\ writeFate[g] = "open_fails"
          /\ g \notin DOMAIN outDir

\* C2: once a path is found missing, or the loaded table is empty (no valid
\* row, or the read failed), the run has ended with exit status 1, no
\* patcher has read a file and the output directory holds no file.
C2_FatalAbort ==
    LET pathMissing == pc # "validate" /\ ~PathsExist
        tableEmpty ==
            Loaded /\ (cfgFile.fails \/ \A i \in DOMAIN cfgFile.rows : ~ValidRow(cfgFile.rows[i]))
    IN  (pathMissing \/ tableEmpty) =>
            /\ pc = "exit" /\ exitCode = 1
            /\ readLog = <<>> /\ DOMAIN fileText = {}
            /\ DOMAIN outDir = {}

\* The config file held a valid row and could not be read to its end: the
\* run ended with status 1.
C2_Witness ==
    /\ Loaded /\ cfgFile.fails
    /\ \E i \in DOMAIN cfgFile.rows : ValidRow(cfgFile.rows[i])
    /\ pc = "exit" /\ exitCode = 1

\* C3: a run that passed the fatal preconditions ends only after every
\* classified file was processed and the summary was printed, whatever the
\* files hold: no per-file error leaves main().
C3_BatchNeverAborts ==
    (pc = "exit" /\ PassedPreconditions) =>
        /\ uncaught = "none"
        /\ summary # <<>>
        /\ \A f \in Classified : Processed(f)

\* C4: at the end of a completed run the error count is the number of
\* classified files that were malformed JSON, lacked the identifier, or
\* failed to be written.
C4_ErrorsTallied ==
    Completed =>
        error_count =
            Cardinality({f \in Classified :
                            \/ fileText[f].t = "bad"
                            \/ (fileText[f].t = "json" /\ Identifier(f).t = "null")
                            \/ WriteFailed(f)})

\* C5: a run that passed the fatal preconditions exits with status 0.
C5_ExitsZero ==
    (pc = "exit" /\ PassedPreconditions) => exitCode = 0

\* C6: the loaded table has exactly the trimmed identifiers of the valid rows
\* as its keys, each mapped to the trimmed timestamp of the last valid row
\* with that identifier; the other rows add nothing and stop nothing.
C6_LoadedTable ==
    (Loaded /\ ~cfgFile.fails) =>
        LET rows == cfgFile.rows
            valid == {i \in DOMAIN rows : ValidRow(rows[i])}
            rowsOf(k) == {i \in valid : Trimmed(rows[i][1]) = k}
        IN  /\ DOMAIN tan_date_map = {Trimmed(rows[i][1]) : i \in valid}
            /\ \A k \in DOMAIN tan_date_map :
                  tan_date_map[k] = Trimmed(rows[Max(rowsOf(k))][2])

\* A row of one field, then two valid rows with the same identifier once
\* trimmed: the table holds the date of the later one.
C6_Witness ==
    /\ Loaded
    /\ cfgFile = ConfigFile(<< <<TanA>>, <<TanA, Date1>>, <<TanAPadded, Date2Padded>> >>, FALSE)
    /\ DOMAIN tan_date_map = {TanA}
    /\ tan_date_map[TanA] = Date2

\* C7: the output written for a patient record whose metadata.transferTAN is
\* a key of the table has submittedAt equal to the table's timestamp for it
\* and every other top-level field as in the input document.
C7_PatientOutput ==
    \A f \in DOMAIN fileText :
        (f.prefix = PatientPrefix /\ IsKey(Identifier(f)) /\ Written(f)) =>
            /\ FieldOf(Document(outDir[f]), "submittedAt")
                   = Str(tan_date_map[Identifier(f).s])
            /\ SameButField(Document(fileText[f]), Document(outDir[f]), "submittedAt")

\* A patient record without submittedAt was written with the field created,
\* its other fields kept.
C7_Witness ==
    \E f \in DOMAIN fileText :
        /\ f.prefix = PatientPrefix /\ Written(f)
        /\ ~HasKey(Document(fileText[f]).o, "submittedAt")
        /\ HasKey(Document(outDir[f]).o, "submittedAt")
        /\ HasKey(Document(outDir[f]).o, "patient")

\* C8: a submission report whose id is absent, null or empty yields no
\* correction and no output; one whose id is a key of the table yields a
\* document with createdAt equal to the table's timestamp for the id and
\* every other top-level field as in the input.
C8_ReportPatch ==
    \A f \in DOMAIN fileText :
        f.prefix = ReportPrefix =>
            LET id == Identifier(f)
            IN  /\ (fileText[f].t = "json" /\ (id.t = "null" \/ (id.t = "str" /\ id.s = <<>>))) =>
                      /\ results[f].kind # "fix"
                      /\ ~WriteTried(f)
                      /\ f \notin DOMAIN outDir
                /\ IsKey(id) =>
                      /\ results[f].kind = "fix"
                      /\ results[f].tan = id.s
                      /\ results[f].new_date = tan_date_map[id.s]
                      /\ FieldOf(results[f].data, "createdAt") = Str(tan_date_map[id.s])
                      /\ SameButField(Document(fileText[f]), results[f].data, "createdAt")

\* One report with a null id gave nothing, another without createdAt was
\* corrected.
C8_Witness ==
    \E f, g \in DOMAIN fileText :
        /\ f.prefix = ReportPrefix /\ g.prefix = ReportPrefix
        /\ fileText[f].t = "json" /\ Document(fileText[f]).t = "obj"
        /\ HasKey(Document(fileText[f]).o, "id") /\ Identifier(f).t = "null"
        /\ results[f].kind = "none"
        /\ results[g].kind = "fix"
        /\ ~HasKey(Document(fileText[g]).o, "createdAt")
        /\ HasKey(results[g].data.o, "createdAt")

\* C9: in a run that passed the fatal preconditions and has ended, every
\* classified file was read exactly once, and every patient record was read
\* before any submission report.
C9_OrderAndOnce ==
    (pc = "exit" /\ PassedPreconditions) =>
        /\ \A f \in Classified :
              Cardinality({i \in DOMAIN readLog : readLog[i] = f}) = 1
        /\ \A i, j \in DOMAIN readLog :
              (readLog[i].prefix = ReportPrefix /\ readLog[j].prefix = PatientPrefix) => j < i

\* A processed file that is well formed and whose identifier is not in the
\* table.
WellFormedUnmatched(f) ==
    /\ fileText[f].t = "json"
    /\ Identifier(f).t = "str" /\ Identifier(f).s # <<>>
    /\ ~IsKey(Identifier(f))

\* C10: the modified count of the summary is the number of files completely
\* written to the output directory; at every point of the loops the modified
\* count is the number of files written and the error count the number of
\* failed writes so far, and a processed well-formed file whose identifier is
\* not in the table is in neither number: it incremented neither counter.
C10_Counts ==
    PassedPreconditions =>
        /\ summary # <<>> =>
              summary[1].modified = Cardinality({f \in DOMAIN outDir : Written(f)})
        /\ pc # "classify" =>
              /\ modified_count = Cardinality({f \in Classified : Written(f)})
              /\ error_count = Cardinality({f \in Classified : WriteFailed(f)})
              /\ \A f \in Classified :
                    (Processed(f) /\ WellFormedUnmatched(f)) =>
                        (~Written(f) /\ ~WriteFailed(f))

\* A completed run with one file written and one well-formed file whose
\* identifier is not in the table: one modification reported.
C10_Witness ==
    /\ Completed
    /\ summary[1].modified = 1
    /\ \E f, g \in Classified : Written(f) /\ WellFormedUnmatched(g)

====
